---- MODULE Spec2Model ----
(***************************************************************************)
(* Model of image_miner.py: the login, the upload response parsing, the    *)
(* fuzzy text scan, the nearest-image search and the record loop of main.  *)
(*                                                                         *)
(* Text is a sequence of one-character strings.  Python's None is the      *)
(* string None below, a missing dictionary key is Absent.  Page indices    *)
(* are 0-based as in the code; doc[page_idx] is Page(d, page_idx).         *)
(***************************************************************************)
EXTENDS Integers, Sequences, FiniteSets, TLC

VARIABLES
    pc,          \* position of main: "auth", "read_excel", "open_pdf", "loop",
                 \* "returned" (main returned), "raised" (uncaught exception);
                 \* "call" / "called" in the specifications of one function
    api_token,   \* main: api_token
    login,       \* what the login was given: [email, password, reply]
    excel,       \* the rows of the input spreadsheet (input)
    questions,   \* main: questions, once read
    setup,       \* which of read_excel / fitz.open have been run
    doc,         \* the pages of the PDF (input)
    ratio,       \* fuzz.partial_ratio: <<query_short, block text>> -> 0..100 (input)
    i,           \* main: number of loop iterations done
    lookup_map,  \* main: lookup_map
    output,      \* the file at output_json: [written, content]
    q_text,      \* the query of the last find_image_below_text call
    match,       \* its text scan: [highest_ratio, best_match_page, best_rect]
    assoc,       \* its image search: [primary, found_xref, inspected]
    resp,        \* the last upload response
    url,         \* the last return value of upload_image_api
    log          \* per loop iteration, what was called and what it gave

vars == <<pc, api_token, login, excel, questions, setup, doc, ratio, i, lookup_map,
          output, q_text, match, assoc, resp, url, log>>

None == "<None>"
Absent == "<absent>"

\* Python truthiness of a string-or-None value (lines 172, 211).
Truthy(v) == v # None /\ v # ""

(***************************************************************************)
(* Text                                                                    *)
(***************************************************************************)
Rep(c, n) == [k \in 1..n |-> c]

UpperChars == <<"A","B","C","D","E","F","G","H","I","J","K","L","M",
                "N","O","P","Q","R","S","T","U","V","W","X","Y","Z">>
LowerChars == <<"a","b","c","d","e","f","g","h","i","j","k","l","m",
                "n","o","p","q","r","s","t","u","v","w","x","y","z">>

LowerChar(c) ==
    IF \E k \in 1..26 : UpperChars[k] = c
    THEN LowerChars[CHOOSE k \in 1..26 : UpperChars[k] = c]
    ELSE c

\* str.lower()
lower(s) == [k \in 1..Len(s) |-> LowerChar(s[k])]

\* Cell values of a spreadsheet row: bool, int, float or str; a missing key is
\* AbsentV.
BoolV(b)  == [t |-> "bool",   b |-> b,     n |-> 0, s |-> <<>>]
IntV(n)   == [t |-> "int",    b |-> FALSE, n |-> n, s |-> <<>>]
FloatV(n) == [t |-> "float",  b |-> FALSE, n |-> n, s |-> <<>>]
StrV(s)   == [t |-> "str",    b |-> FALSE, n |-> 0, s |-> s]
AbsentV   == [t |-> "absent", b |-> FALSE, n |-> 0, s |-> <<>>]

Digits == <<"0","1","2","3","4","5","6","7","8","9">>

\* str(v) for the cell values above (ints and whole floats of one digit).
str(v) ==
    CASE v.t = "bool"  -> IF v.b THEN <<"T","r","u","e">> ELSE <<"F","a","l","s","e">>
      [] v.t = "int"   -> <<Digits[v.n + 1]>>
      [] v.t = "float" -> <<Digits[v.n + 1], ".", "0">>
      [] v.t = "str"   -> v.s

\* dict.get(key, default)
get(v, default) == IF v = AbsentV THEN default ELSE v

\* is_flagged without the .lower() of line 198
is_flagged_nolower(has_img_val) ==
    str(has_img_val) \in { <<"t","r","u","e">>, <<"1">> }

\* lines 197-198
is_flagged(has_img_val) ==
    lower(str(has_img_val)) \in { <<"t","r","u","e">>, <<"1">> }

\* line 201
QText(q) == str(get(q.Question, StrV(<<>>)))

QueryLen == 100

\* line 104
query_short(text_query) ==
    SubSeq(text_query, 1, IF Len(text_query) < QueryLen THEN Len(text_query) ELSE QueryLen)

(***************************************************************************)
(* login_and_get_token                                                     *)
(***************************************************************************)
\* The login exchange: the two secrets (None when the variable is unset) and
\* what scraper.post gave: an exception (also a body that is no JSON), or a
\* status and a body whose "data" is missing, a dictionary, or something else.
LoginReply(kind, status, data_kind, accessToken) ==
    [kind |-> kind, status |-> status, data_kind |-> data_kind,
     accessToken |-> accessToken]

\* lines 17-50
login_and_get_token(email, password, r) ==
    IF ~Truthy(email) \/ ~Truthy(password) THEN None
    ELSE IF r.kind = "exception" THEN None
    ELSE IF r.status \in {200, 201}
         THEN IF r.data_kind = "dict" /\ r.accessToken # Absent
              THEN r.accessToken
              ELSE None  \* key missing, or a TypeError caught at line 48
         ELSE None

(***************************************************************************)
(* upload_image_api                                                        *)
(***************************************************************************)
\* An upload response: kind "exception" (scraper.post or response.json()
\* raised) or "http" with a status and a JSON object: root keys url and
\* secure_url, and data, which is missing, a string, or a dictionary with
\* keys url, link and files; files is missing, a list of items, or something
\* else; an item is a dictionary with key url, or something else.
Item(kind, u) == [kind |-> kind, url |-> u]
Files(kind, items) == [kind |-> kind, items |-> items]
NoFiles == Files("absent", <<>>)
Data(kind, s, u, link, files) ==
    [kind |-> kind, s |-> s, url |-> u, link |-> link, files |-> files]
NoData == Data("absent", "", Absent, Absent, NoFiles)
Response(kind, status, u, secure_url, data) ==
    [kind |-> kind, status |-> status, url |-> u, secure_url |-> secure_url,
     data |-> data]
UploadException == Response("exception", 0, Absent, Absent, NoData)

\* lines 75-81: data is a dictionary whose files is a non-empty list
has_files(data) ==
    /\ data.kind = "dict"
    /\ data.files.kind = "list"
    /\ Len(data.files.items) > 0

\* line 81: inner_data['files'][0].get('url'); an item that is no dictionary
\* raises AttributeError, caught at line 99
first_file_url(data) ==
    LET f == data.files.items[1]
    IN  IF f.kind = "dict" /\ f.url # Absent THEN f.url ELSE None

\* parse_body with the root-level url tried before data
parse_body_mut(r) ==
    IF r.url # Absent THEN r.url
    ELSE IF has_files(r.data) THEN first_file_url(r.data)
    ELSE IF r.data.kind = "dict" /\ r.data.url # Absent THEN r.data.url
    ELSE IF r.data.kind = "dict" /\ r.data.link # Absent THEN r.data.link
    ELSE IF r.secure_url # Absent THEN r.secure_url
    ELSE None

\* lines 69-93
parse_body(r) ==
    IF has_files(r.data) THEN first_file_url(r.data)
    ELSE IF r.data.kind = "dict" /\ r.data.url # Absent THEN r.data.url
    ELSE IF r.data.kind = "dict" /\ r.data.link # Absent THEN r.data.link
    ELSE IF r.url # Absent THEN r.url
    ELSE IF r.secure_url # Absent THEN r.secure_url
    ELSE None

\* lines 52-101 (the filename of line 58 does not reach the result)
upload_image_api(r) ==
    IF r.kind = "exception" THEN None
    ELSE IF r.status \in {200, 201} THEN parse_body(r)
    ELSE None

(***************************************************************************)
(* find_image_below_text: the document                                     *)
(***************************************************************************)
\* A page gives get_text("blocks"), each block a rectangle (block[:4], of
\* which y0 and y1 are kept) and a text (block[4]), and get_images(), each
\* image an xref (a positive number) and the top edges y0 of the rectangles
\* get_image_rects(xref) gives, possibly none.
Rect(y0, y1) == [y0 |-> y0, y1 |-> y1]
Block(rect, text) == [rect |-> rect, text |-> text]
Image(xref, rects) == [xref |-> xref, rects |-> rects]
MkPage(blocks, images) == [blocks |-> blocks, images |-> images]

\* doc[page_idx], for a page_idx in the document
Page(d, page_idx) == d[page_idx + 1]

NoRect == Rect(-1, -1)
\* found_xref is None; line 153 takes None and 0 alike, and no object has xref 0
NoXref == 0

Threshold == 85
MaxSame == 800
MaxNext == 300

\* line 113: fuzz.partial_ratio(query_short, block[4]), given by the table rt
partial_ratio(rt, q, text) == rt[<<q, text>>]

\* better with >= for the second comparison: a later tie replaces the match
better_ties(r, highest_ratio) == r > Threshold /\ r >= highest_ratio

\* line 114
better(r, highest_ratio) == r > Threshold /\ r > highest_ratio

\* lines 105-107
NoMatch == [highest_ratio |-> 0, best_match_page |-> -1, best_rect |-> NoRect]

\* lines 112-117: the blocks of one page, from block k on
RECURSIVE scan_blocks(_, _, _, _, _, _)
scan_blocks(rt, q, blocks, k, page_num, st) ==
    IF k > Len(blocks) THEN st
    ELSE LET r == partial_ratio(rt, q, blocks[k].text)
             nxt == IF better(r, st.highest_ratio)
                    THEN [highest_ratio |-> r, best_match_page |-> page_num,
                          best_rect |-> blocks[k].rect]
                    ELSE st
         IN  scan_blocks(rt, q, blocks, k + 1, page_num, nxt)

\* lines 110-117: the pages from page_num on
RECURSIVE scan_text(_, _, _, _, _)
scan_text(rt, q, d, page_num, st) ==
    IF page_num >= Len(d) THEN st
    ELSE scan_text(rt, q, d, page_num + 1,
                   scan_blocks(rt, q, Page(d, page_num).blocks, 1, page_num, st))

\* lines 104-119: best_match_page = -1 is the "return None" of line 119
find_text(rt, text_query, d) == scan_text(rt, query_short(text_query), d, 0, NoMatch)

\* nearer without the test of line 140: the distance taken either way
nearer_above(y0, min_y, current_min_dist) ==
    (IF y0 >= min_y THEN y0 - min_y ELSE min_y - y0) < current_min_dist

\* nearer with <= for the comparison of line 142
nearer_incl(y0, min_y, current_min_dist) ==
    y0 >= min_y /\ y0 - min_y <= current_min_dist

\* lines 140-142
nearer(y0, min_y, current_min_dist) ==
    y0 >= min_y /\ y0 - min_y < current_min_dist

\* lines 133-144: the images of one page, from image k on
RECURSIVE scan_images(_, _, _, _, _)
scan_images(images, k, min_y, candidate, current_min_dist) ==
    IF k > Len(images) THEN candidate
    ELSE LET img == images[k]
         IN  IF Len(img.rects) = 0
             THEN scan_images(images, k + 1, min_y, candidate, current_min_dist)
             ELSE IF nearer(img.rects[1], min_y, current_min_dist)
                  THEN scan_images(images, k + 1, min_y, img.xref,
                                   img.rects[1] - min_y)
                  ELSE scan_images(images, k + 1, min_y, candidate,
                                   current_min_dist)

\* lines 124-145
scan_page(d, page_idx, min_y, max_dist) ==
    IF page_idx \notin 0..(Len(d) - 1) THEN NoXref  \* IndexError, line 127
    ELSE scan_images(Page(d, page_idx).images, 1, min_y, NoXref, max_dist)

\* next_page off by one
next_page_mut(best_match_page) == best_match_page + 2

\* line 155
next_page(best_match_page) == best_match_page + 1

\* line 153
needs_fallback(primary) == primary = NoXref

\* lines 148-155, for a match m: the xref after the first pass, the final
\* found_xref, and the page indices handed to scan_page
find_image(d, m) ==
    LET text_bottom == m.best_rect.y1
        primary == scan_page(d, m.best_match_page, text_bottom, MaxSame)
        second == scan_page(d, next_page(m.best_match_page), 0, MaxNext)
    IN  IF needs_fallback(primary)
        THEN [primary |-> primary, found_xref |-> second,
              scanned |-> <<m.best_match_page, next_page(m.best_match_page)>>]
        ELSE [primary |-> primary, found_xref |-> primary,
              scanned |-> <<m.best_match_page>>]

NoAssoc == [primary |-> NoXref, found_xref |-> NoXref, scanned |-> <<>>]

(***************************************************************************)
(* main                                                                    *)
(***************************************************************************)
EmptyMap == <<>>

\* put that keeps the value of a key already there
put_first(m, k, v) ==
    IF k \in DOMAIN m THEN m ELSE [x \in DOMAIN m \cup {k} |-> IF x = k THEN v ELSE m[x]]

\* line 214: lookup_map[q_text] = url
put(m, k, v) == [x \in DOMAIN m \cup {k} |-> IF x = k THEN v ELSE m[x]]

\* line 214: the key is q_text as it is
key(text) == text

File(written, content) == [written |-> written, content |-> content]

\* What one loop iteration did: whether the record was flagged, whether the
\* text scan, and the upload, were called, and the url the upload returned.
Entry(flagged, searched, uploads, u) ==
    [flagged |-> flagged, searched |-> searched, uploads |-> uploads, url |-> u]

\* The inputs of the login: SUCCEED_EMAIL, SUCCEED_PASSWORD, and the reply.
Secrets == {None, "", "secret"}
LoginReplies ==
    {LoginReply("exception", 0, "absent", Absent)}
    \cup {LoginReply("http", st, dk, Absent) :
             st \in {200, 201, 204, 401}, dk \in {"absent", "other", "dict"}}
    \cup {LoginReply("http", st, "dict", tok) :
             st \in {200, 201, 204, 401}, tok \in {"", "token"}}

\* Authenticate without the json.dump of line 174
Authenticate_skip ==
    /\ pc = "auth"
    /\ \E email \in Secrets, password \in Secrets, r \in LoginReplies :
          /\ api_token' = login_and_get_token(email, password, r)
          /\ login' = [email |-> email, password |-> password, reply |-> r]
          /\ pc' = IF Truthy(api_token') THEN "read_excel" ELSE "returned"
    /\ UNCHANGED <<excel, questions, setup, doc, ratio, i, lookup_map, output,
                   q_text, match, assoc, resp, url, log>>

\* lines 170-175
Authenticate ==
    /\ pc = "auth"
    /\ \E email \in Secrets, password \in Secrets, r \in LoginReplies :
          /\ api_token' = login_and_get_token(email, password, r)
          /\ login' = [email |-> email, password |-> password, reply |-> r]
          /\ IF Truthy(api_token')
             THEN pc' = "read_excel" /\ output' = output
             ELSE pc' = "returned" /\ output' = File(TRUE, EmptyMap)
    /\ UNCHANGED <<excel, questions, setup, doc, ratio, i, lookup_map,
                   q_text, match, assoc, resp, url, log>>

\* lines 177-183: pd.read_excel gives the rows or raises
ReadExcel ==
    /\ pc = "read_excel"
    /\ \E ok \in BOOLEAN :
          IF ok
          THEN /\ questions' = excel
               /\ setup' = [setup EXCEPT !.excel = "read"]
               /\ pc' = "open_pdf"
          ELSE /\ questions' = questions
               /\ setup' = [setup EXCEPT !.excel = "failed"]
               /\ pc' = "returned"
    /\ UNCHANGED <<api_token, login, excel, doc, ratio, i, lookup_map, output,
                   q_text, match, assoc, resp, url, log>>

\* lines 185-192: fitz.open gives the document or raises
OpenPdf ==
    /\ pc = "open_pdf"
    /\ \E ok \in BOOLEAN :
          IF ok
          THEN setup' = [setup EXCEPT !.pdf = "open"] /\ pc' = "loop"
          ELSE setup' = [setup EXCEPT !.pdf = "failed"] /\ pc' = "returned"
    /\ UNCHANGED <<api_token, login, excel, questions, doc, ratio, i, lookup_map,
                   output, q_text, match, assoc, resp, url, log>>

\* The upload responses the record loop is run against.
LoopResponses ==
    { UploadException,
      Response("http", 500, Absent, Absent, NoData),
      Response("http", 200, Absent, Absent, NoData),
      Response("http", 200, Absent, Absent,
               Data("dict", "", Absent, Absent,
                    Files("list", <<Item("dict", "https://cdn/files0")>>))),
      Response("http", 201, "https://cdn/root", Absent, NoData) }

\* lines 195-218: one iteration of the loop.  extract_image (line 159) returns
\* or raises; an exception there is caught nowhere and ends main.
Iterate ==
    /\ pc = "loop"
    /\ i < Len(questions)
    /\ \E extracted \in BOOLEAN, r \in LoopResponses :
        LET q == questions[i + 1]
            has_img_val == get(q.has_image, BoolV(FALSE))
            text == QText(q)
            m == find_text(ratio, text, doc)
            a == IF m.best_match_page = -1 THEN NoAssoc ELSE find_image(doc, m)
            u == upload_image_api(r)
        IN  IF ~is_flagged(has_img_val)
            THEN /\ i' = i + 1
                 /\ log' = Append(log, Entry(FALSE, FALSE, 0, None))
                 /\ UNCHANGED <<pc, lookup_map, q_text, match, assoc, resp, url>>
            ELSE /\ q_text' = text
                 /\ match' = m
                 /\ assoc' = a
                 /\ IF a.found_xref = NoXref
                    THEN /\ i' = i + 1
                         /\ log' = Append(log, Entry(TRUE, TRUE, 0, None))
                         /\ UNCHANGED <<pc, lookup_map, resp, url>>
                    ELSE IF ~extracted
                    THEN /\ pc' = "raised"
                         /\ UNCHANGED <<i, log, lookup_map, resp, url>>
                    ELSE /\ resp' = r
                         /\ url' = u
                         /\ lookup_map' = IF Truthy(u)
                                          THEN put(lookup_map, key(text), u)
                                          ELSE lookup_map
                         /\ i' = i + 1
                         /\ log' = Append(log, Entry(TRUE, TRUE, 1, u))
                         /\ pc' = pc
    /\ UNCHANGED <<api_token, login, excel, questions, setup, doc, ratio, output>>

\* lines 220-224
SaveResults ==
    /\ pc = "loop"
    /\ i = Len(questions)
    /\ output' = File(TRUE, lookup_map)
    /\ pc' = "returned"
    /\ UNCHANGED <<api_token, login, excel, questions, setup, doc, ratio, i,
                   lookup_map, q_text, match, assoc, resp, url, log>>

Next == Authenticate \/ ReadExcel \/ OpenPdf \/ Iterate \/ SaveResults

(***************************************************************************)
(* Inputs                                                                  *)
(***************************************************************************)
\* Rows of a spreadsheet, pages of a document, and blocks, and images, of a
\* whole document.
MaxRecords == 2
MaxPages == 3
MaxBlocks == 3
MaxImages == 2

SeqsUpTo(S, n) == UNION {[1..k -> S] : k \in 0..n}

\* The documents of exactly np pages that hold at most n items (blocks or
\* images) in all, each page a sequence of items out of S.
RECURSIVE Layouts(_, _, _)
Layouts(np, n, S) ==
    IF np = 0 THEN {<<>>}
    ELSE UNION { {<<pg>> \o rest : rest \in Layouts(np - 1, n - Len(pg), S)} :
                 pg \in SeqsUpTo(S, n) }

Row(flag, question) == [has_image |-> flag, Question |-> question]

\* Question texts: a short one, and two that differ only after the first
\* QueryLen characters.
Short == <<"Q", "1">>
LongA == Rep("a", QueryLen) \o <<"x">>
LongB == Rep("a", QueryLen) \o <<"y">>
Texts == {Short, LongA, LongB}

NoLogin == [email |-> None, password |-> None,
            reply |-> LoginReply("exception", 0, "absent", Absent)]

\* Documents of the record loop: an image 30 below the text and one 380
\* below; text at the foot of page 0 and an image at the top of page 1; two
\* blocks with the same text and no image; no page at all.
DocFrance ==
    << MkPage(<<Block(Rect(100, 120), "France")>>,
              <<Image(1, <<150>>), Image(2, <<500>>)>>),
       MkPage(<<>>, <<>>) >>
DocStraddle ==
    << MkPage(<<Block(Rect(760, 780), "France")>>, <<>>),
       MkPage(<<>>, <<Image(3, <<50>>)>>) >>
DocNoImage ==
    << MkPage(<<Block(Rect(100, 120), "France"),
                Block(Rect(200, 220), "France")>>, <<>>) >>
DocEmpty == <<>>
MainDocs == {DocFrance, DocStraddle, DocNoImage, DocEmpty}

Ratios(queries, texts, scores) ==
    [{<<query_short(q), t>> : q \in queries, t \in texts} -> scores]

InitWith(excels, docs, ratios) ==
    /\ pc = "auth"
    /\ api_token = None
    /\ login = NoLogin
    /\ excel \in excels
    /\ questions = <<>>
    /\ setup = [excel |-> "no", pdf |-> "no"]
    /\ doc \in docs
    /\ ratio \in ratios
    /\ i = 0
    /\ lookup_map = EmptyMap
    /\ output = File(FALSE, EmptyMap)
    /\ q_text = <<>>
    /\ match = NoMatch
    /\ assoc = NoAssoc
    /\ resp = UploadException
    /\ url = None
    /\ log = <<>>

\* The run of main over flagged and unflagged rows of the three texts.
Init ==
    InitWith(SeqsUpTo({Row(f, StrV(t)) : f \in {BoolV(TRUE), StrV(<<"n", "o">>)},
                                          t \in Texts}, MaxRecords),
             MainDocs,
             Ratios(Texts, {"France"}, {80, 90}))

Spec == Init /\ [][Next]_vars

\* The run of main over rows with every kind of flag value.
FlagValues ==
    { BoolV(TRUE), BoolV(FALSE), IntV(1), IntV(0), FloatV(1), AbsentV,
      StrV(<<"T","r","u","e">>), StrV(<<"t","r","u","e">>),
      StrV(<<"T","R","U","E">>), StrV(<<"1">>), StrV(<<"0">>),
      StrV(<<"n","o">>), StrV(<<"y","e","s">>) }

InitFlag ==
    InitWith(SeqsUpTo({Row(f, StrV(Short)) : f \in FlagValues}, MaxRecords),
             {DocFrance},
             Ratios({Short}, {"France"}, {90}))

SpecFlag == InitFlag /\ [][Next]_vars

(***************************************************************************)
(* upload_image_api over every shape of response                           *)
(***************************************************************************)
Items == { Item("dict", "https://cdn/files0"), Item("dict", Absent),
           Item("other", Absent) }
FilesValues ==
    {NoFiles, Files("other", <<>>), Files("list", <<>>)}
    \cup {Files("list", <<it>>) : it \in Items}
    \cup {Files("list", <<Item("dict", "https://cdn/files0"),
                          Item("dict", "https://cdn/files1")>>)}
DataValues ==
    {NoData}
    \cup {Data("str", t, Absent, Absent, NoFiles) :
             t \in {"http://cdn/data-string", "accepted"}}
    \cup {Data("dict", "", u, l, f) :
             u \in {Absent, "https://cdn/data-url"},
             l \in {Absent, "https://cdn/data-link"},
             f \in FilesValues}
Responses ==
    {UploadException}
    \cup {Response("http", st, u, su, d) :
             st \in {200, 201, 204, 404},
             u \in {Absent, "https://cdn/root"},
             su \in {Absent, "https://cdn/secure"},
             d \in DataValues}

\* Every variable but those of the function called keeps its initial value.
Idle ==
    /\ api_token = None
    /\ login = NoLogin
    /\ excel = <<>>
    /\ questions = <<>>
    /\ setup = [excel |-> "no", pdf |-> "no"]
    /\ i = 0
    /\ lookup_map = EmptyMap
    /\ output = File(FALSE, EmptyMap)
    /\ log = <<>>

InitUpload ==
    /\ Idle
    /\ pc = "call"
    /\ doc = <<>>
    /\ ratio = <<>>
    /\ q_text = <<>>
    /\ match = NoMatch
    /\ assoc = NoAssoc
    /\ resp = UploadException
    /\ url = None

\* url = upload_image_api(...), line 209, for any response
UploadCall ==
    /\ pc = "call"
    /\ \E r \in Responses :
          /\ resp' = r
          /\ url' = upload_image_api(r)
    /\ pc' = "called"
    /\ UNCHANGED <<api_token, login, excel, questions, setup, doc, ratio, i,
                   lookup_map, output, q_text, match, assoc, log>>

SpecUpload == InitUpload /\ [][UploadCall]_vars

(***************************************************************************)
(* The text scan over every document of a few blocks                       *)
(***************************************************************************)
Scores == {85, 86, 100}

\* Block k of a page lies at y0 = 100*k, y1 = 100*k + 20; its text is its own.
LocPage(p, n) ==
    MkPage([k \in 1..n |-> Block(Rect(100 * k, 100 * k + 20), <<p, k>>)], <<>>)
LocDocs ==
    { [p \in 1..Len(sh) |-> LocPage(p - 1, Len(sh[p]))] :
        sh \in UNION {Layouts(np, MaxBlocks, {"block"}) : np \in 0..MaxPages} }
TextsOf(d) == UNION {{b.text : b \in {d[p].blocks[k] : k \in DOMAIN d[p].blocks}} :
                     p \in DOMAIN d}

InitLocate ==
    /\ Idle
    /\ pc = "call"
    /\ q_text = LongA
    /\ doc \in LocDocs
    /\ ratio \in Ratios({LongA}, TextsOf(doc), Scores)
    /\ match = NoMatch
    /\ assoc = NoAssoc
    /\ resp = UploadException
    /\ url = None

\* lines 104-119 for the query q_text
LocateCall ==
    /\ pc = "call"
    /\ match' = find_text(ratio, q_text, doc)
    /\ pc' = "called"
    /\ UNCHANGED <<api_token, login, excel, questions, setup, doc, ratio, i,
                   lookup_map, output, q_text, assoc, resp, url, log>>

SpecLocate == InitLocate /\ [][LocateCall]_vars

(***************************************************************************)
(* The image search over every document of a few images                    *)
(***************************************************************************)
\* The bottom edge of the matched block, and the top edges of the images:
\* above the page, at its top, at the text's bottom edge, 200 below it,
\* MaxNext below the top, and MaxSame below the text.
TextBottom == 100
TopEdges == {-10, 0, TextBottom, TextBottom + 200, MaxNext, TextBottom + MaxSame}
RectLists == {<<>>} \cup {<<y>> : y \in TopEdges}
             \cup {<<TextBottom + MaxSame, TextBottom>>}

\* Image k of page p has xref 10*p + k.
AssocPage(p, rects) ==
    MkPage(<<>>, [k \in 1..Len(rects) |-> Image(10 * p + k, rects[k])])
AssocDocs ==
    { [p \in 1..Len(sh) |-> AssocPage(p - 1, sh[p])] :
        sh \in UNION {Layouts(np, MaxImages, RectLists) : np \in 0..MaxPages} }

InitAssoc ==
    /\ Idle
    /\ pc = "call"
    /\ q_text = <<>>
    /\ doc \in AssocDocs
    /\ ratio = <<>>
    /\ match \in {[highest_ratio |-> 100, best_match_page |-> p,
                   best_rect |-> Rect(TextBottom - 20, TextBottom)] :
                     p \in 0..(Len(doc) - 1)}
    /\ assoc = NoAssoc
    /\ resp = UploadException
    /\ url = None

\* lines 148-155 for the match
AssociateCall ==
    /\ pc = "call"
    /\ assoc' = find_image(doc, match)
    /\ pc' = "called"
    /\ UNCHANGED <<api_token, login, excel, questions, setup, doc, ratio, i,
                   lookup_map, output, q_text, match, resp, url, log>>

SpecAssoc == InitAssoc /\ [][AssociateCall]_vars

(***************************************************************************)
(* Claims about upload_image_api (SpecUpload)                              *)
(***************************************************************************)
Is2xx(r) == r.kind = "http" /\ r.status \in 200..299
StartsWithHttp(t) == t \in {"http://cdn/data-string"}

\* The url the rules give when tried in the order root url, data.url,
\* data.link, data.files[0].url, root secure_url, data a string with http.
UrlInClaimedOrder(r) ==
    LET d == r.data
    IN  IF r.url # Absent THEN r.url
        ELSE IF d.kind = "dict" /\ d.url # Absent THEN d.url
        ELSE IF d.kind = "dict" /\ d.link # Absent THEN d.link
        ELSE IF has_files(d) /\ first_file_url(d) # None THEN first_file_url(d)
        ELSE IF r.secure_url # Absent THEN r.secure_url
        ELSE IF d.kind = "str" /\ StartsWithHttp(d.s) THEN d.s
        ELSE None

\* C2 as claimed: for every 2xx response the result is the url of the first
\* matching rule in the order root url, data.url, data.link,
\* data.files[0].url, root secure_url, data a string beginning with http;
\* and None only if no rule matches or the status is not 2xx.
C2_ClaimedOrder ==
    pc = "called" =>
        url = IF Is2xx(resp) THEN UrlInClaimedOrder(resp) ELSE None

\* C2 as amended: the result is None unless the status is 200 or 201; then,
\* when data is a dictionary whose files is a non-empty list, it is the url
\* of files[0], or None when files[0] has none, and no other rule is tried;
\* otherwise it is the first present of data.url, data.link, root url, root
\* secure_url, or None; a data that is a string is never used.
C2_UploadRules ==
    pc = "called" =>
        LET d == resp.data
            accepted == resp.kind = "http" /\ resp.status \in {200, 201}
            dict == d.kind = "dict"
            files == dict /\ d.files.kind = "list" /\ d.files.items # <<>>
            data_url == dict /\ d.url # Absent
            data_link == dict /\ d.link # Absent
        IN  /\ ~accepted => url = None
            /\ accepted /\ files =>
                 /\ d.files.items[1].kind = "dict" /\ d.files.items[1].url # Absent
                      => url = d.files.items[1].url
                 /\ d.files.items[1].kind # "dict" \/ d.files.items[1].url = Absent
                      => url = None
            /\ accepted /\ ~files /\ data_url => url = d.url
            /\ accepted /\ ~files /\ ~data_url /\ data_link => url = d.link
            /\ accepted /\ ~files /\ ~data_url /\ ~data_link /\ resp.url # Absent
                 => url = resp.url
            /\ accepted /\ ~files /\ ~data_url /\ ~data_link /\ resp.url = Absent
                 => url = IF resp.secure_url # Absent THEN resp.secure_url ELSE None

\* A 200 response that carries a root url, a data.url and a files[0].url:
\* the files[0].url is returned.
C2_Witness ==
    /\ pc = "called"
    /\ resp.status = 200
    /\ resp.url = "https://cdn/root"
    /\ resp.data.url = "https://cdn/data-url"
    /\ has_files(resp.data)
    /\ url = "https://cdn/files0"

(***************************************************************************)
(* Claims about the text scan (SpecLocate)                                 *)
(***************************************************************************)
\* The blocks of the document as <<page index, block number>>, in scan order.
Positions(d) == {<<p - 1, k>> : p \in DOMAIN d, k \in 1..MaxBlocks} \cap
                UNION {{<<p - 1, k>> : k \in DOMAIN d[p].blocks} : p \in DOMAIN d}
Earlier(a, b) == a[1] < b[1] \/ (a[1] = b[1] /\ a[2] < b[2])
BlockAt(d, pos) == Page(d, pos[1]).blocks[pos[2]]
ScoreAt(pos) == ratio[<<SubSeq(q_text, 1, QueryLen), BlockAt(doc, pos).text>>]

\* C3: the scan gives "not found" exactly when no block scores above 85;
\* otherwise it gives the page, rectangle and score of a block whose score is
\* the maximum over all blocks of all pages, the earliest such block in
\* page-then-block order.
C3_BestMatch ==
    pc = "called" =>
        LET over == {pos \in Positions(doc) : ScoreAt(pos) > 85}
        IN  /\ (match.best_match_page = -1) <=> (over = {})
            /\ over # {} =>
                 \E pos \in over :
                    /\ \A o \in Positions(doc) : ScoreAt(o) <= ScoreAt(pos)
                    /\ \A o \in Positions(doc) :
                          ScoreAt(o) = ScoreAt(pos) => ~Earlier(o, pos)
                    /\ match.best_match_page = pos[1]
                    /\ match.best_rect = BlockAt(doc, pos).rect
                    /\ match.highest_ratio = ScoreAt(pos)

\* Two blocks tie at the maximum score, a lower scoring block precedes them,
\* and the first of the two is the match.
C3_Witness ==
    /\ pc = "called"
    /\ match.best_match_page = 1
    /\ \E a \in Positions(doc), b \in Positions(doc), c \in Positions(doc) :
          /\ Earlier(c, a) /\ Earlier(a, b)
          /\ ScoreAt(c) = 86 /\ ScoreAt(a) = 100 /\ ScoreAt(b) = 100
          /\ match.best_rect = BlockAt(doc, a).rect
          /\ a[1] = 1

(***************************************************************************)
(* Claims about the image search (SpecAssoc)                               *)
(***************************************************************************)
\* The images of page p (none when the page does not exist), as the numbers
\* k of their places in get_images(); the top edge of the first rectangle.
ImagesOn(p) == IF p \in 0..(Len(doc) - 1) THEN Page(doc, p).images ELSE <<>>
Placed(p) == {k \in DOMAIN ImagesOn(p) : ImagesOn(p)[k].rects # <<>>}
Top(p, k) == ImagesOn(p)[k].rects[1]
XrefsOn(p) == {ImagesOn(p)[k].xref : k \in DOMAIN ImagesOn(p)}
MatchPage == match.best_match_page
Bottom == match.best_rect.y1
\* within the cap: at most the cap (as the claims say) or less than it
Within(dist, cap, inclusive) == IF inclusive THEN dist <= cap ELSE dist < cap

\* C4: the image selected never has its first top edge above the reference
\* (the text's bottom edge on the match page, 0 on the next page), and an
\* image whose top edge equals the reference is eligible: with one on the
\* page the pass selects an image at that edge.
C4_NeverAbove ==
    pc = "called" =>
        LET pg == IF assoc.primary # NoXref THEN MatchPage ELSE MatchPage + 1
            ref == IF assoc.primary # NoXref THEN Bottom ELSE 0
            chosen == {k \in Placed(pg) : ImagesOn(pg)[k].xref = assoc.found_xref}
        IN  /\ assoc.found_xref # NoXref =>
                 chosen # {} /\ \A k \in chosen : Top(pg, k) >= ref
            /\ (\E k \in Placed(MatchPage) : Top(MatchPage, k) = Bottom) =>
                 /\ assoc.primary # NoXref
                 /\ \A k \in chosen : Top(pg, k) = Bottom
            /\ (assoc.primary = NoXref
                  /\ \E k \in Placed(MatchPage + 1) : Top(MatchPage + 1, k) = 0) =>
                 /\ assoc.found_xref # NoXref
                 /\ \A k \in chosen : Top(pg, k) = 0

\* The match page holds an image above the text and one whose top edge is
\* the text's bottom edge; the second is selected.
C4_Witness ==
    /\ pc = "called"
    /\ \E j \in Placed(MatchPage), k \in Placed(MatchPage) :
          /\ j < k
          /\ Top(MatchPage, j) < Bottom
          /\ Top(MatchPage, k) = Bottom
          /\ assoc.found_xref = ImagesOn(MatchPage)[k].xref

\* The primary pass: among the images of the match page at or below the
\* text's bottom edge and within MaxSame of it, the one of minimum distance,
\* the first such in enumeration order; none when there is no such image;
\* the next page is scanned exactly when the pass gave none.
PrimaryRule(inclusive) ==
    LET cands == {k \in Placed(MatchPage) :
                     /\ Top(MatchPage, k) >= Bottom
                     /\ Within(Top(MatchPage, k) - Bottom, MaxSame, inclusive)}
    IN  /\ cands = {} => assoc.primary = NoXref
        /\ cands # {} =>
             \E k \in cands :
                /\ assoc.primary = ImagesOn(MatchPage)[k].xref
                /\ \A j \in cands : Top(MatchPage, j) >= Top(MatchPage, k)
                /\ \A j \in cands : Top(MatchPage, j) = Top(MatchPage, k) => j >= k
        /\ (assoc.primary = NoXref) <=> (Len(assoc.scanned) = 2)
        /\ assoc.primary # NoXref => assoc.found_xref = assoc.primary

\* C9 as claimed: the candidates are the images whose distance does not
\* exceed the cap of 800.
C9_ClaimedPrimary == pc = "called" => PrimaryRule(TRUE)

\* C9 as amended: the candidates are the images whose distance is less than
\* the cap of 800 (an image exactly 800 below the text is not selected);
\* the minimum distance, the first-encountered tie-break and the fallback
\* only after an empty primary pass are as claimed.
C9_Primary == pc = "called" => PrimaryRule(FALSE)

\* Two images of the match page tie on the minimum distance and the first
\* of them is the result.
C9_Witness ==
    /\ pc = "called"
    /\ \E j \in Placed(MatchPage), k \in Placed(MatchPage) :
          /\ j < k
          /\ Top(MatchPage, j) = Bottom + 200
          /\ Top(MatchPage, k) = Bottom + 200
          /\ assoc.primary = ImagesOn(MatchPage)[j].xref
          /\ assoc.found_xref = assoc.primary

\* The fallback pass: when the match page has no qualifying image and the
\* next page exactly one (top edge at or below 0, within MaxNext of it), that
\* image is the result; with no next page the result is "not found"; only
\* the match page and the next one are scanned or give the result.
FallbackRule(inclusive) ==
    LET none_here == \A k \in Placed(MatchPage) :
                        ~(/\ Top(MatchPage, k) >= Bottom
                          /\ Within(Top(MatchPage, k) - Bottom, MaxSame, inclusive))
        nxt == MatchPage + 1
        qual == {k \in Placed(nxt) :
                    Top(nxt, k) >= 0 /\ Within(Top(nxt, k), MaxNext, inclusive)}
    IN  /\ none_here /\ Cardinality(qual) = 1 =>
             \A k \in qual : assoc.found_xref = ImagesOn(nxt)[k].xref
        /\ none_here /\ nxt >= Len(doc) => assoc.found_xref = NoXref
        /\ \A n \in DOMAIN assoc.scanned : assoc.scanned[n] \in {MatchPage, nxt}
        /\ assoc.found_xref # NoXref =>
             assoc.found_xref \in XrefsOn(MatchPage) \cup XrefsOn(nxt)

\* C5 as claimed: a next-page image at distance at most 300 qualifies.
C5_ClaimedFallback == pc = "called" => FallbackRule(TRUE)

\* C5 as amended: the next-page image qualifies when its distance from the
\* page top is less than 300 (an image at exactly 300 is not returned); the
\* rest is as claimed.
C5_Fallback == pc = "called" => FallbackRule(FALSE)

\* No image below the text on page 0, one image near the top of page 1, and
\* an image on page 2: the image of page 1 is the result.
C5_Witness ==
    /\ pc = "called"
    /\ Len(doc) = 3
    /\ MatchPage = 0
    /\ Placed(0) = {}
    /\ \E k \in Placed(1) : Top(1, k) = TextBottom
                            /\ assoc.found_xref = ImagesOn(1)[k].xref
    /\ Placed(2) # {}
    /\ assoc.primary = NoXref

(***************************************************************************)
(* Claims about main (Spec, SpecFlag)                                      *)
(***************************************************************************)
Ended == pc \in {"returned", "raised"}
Loaded == setup.excel = "read" /\ setup.pdf = "open"

\* C1: whatever fails for one flagged record (text not located, no image,
\* extract_image raising, upload failing), the run is not aborted: once the
\* spreadsheet and the document are loaded, main ends by returning, after an
\* iteration for every record.
C1_NoAbort ==
    Ended /\ Loaded => pc = "returned" /\ i = Len(questions)

\* C8: a run that loaded the spreadsheet and the document ends with the
\* output file written, holding exactly lookup_map, whatever per-record
\* errors occurred.
C8_OutputWritten ==
    Ended /\ Loaded => output = File(TRUE, lookup_map)

\* The causes of a failed login that the claim names.
NoCredentials == login.email \in {None, ""} \/ login.password \in {None, ""}
NetworkError == login.reply.kind = "exception"
Non2xx == login.reply.kind = "http" /\ login.reply.status \notin 200..299
NoTokenField ==
    login.reply.kind = "http"
    /\ (login.reply.data_kind # "dict" \/ login.reply.accessToken = Absent)

\* C7: each of missing credentials, a network error, a non-2xx status and a
\* missing token field leaves main without a token, and whenever there is no
\* token main has written the output file as the empty object and returned,
\* with the spreadsheet not read, the document not opened and no iteration
\* (so no upload) done.
C7_NoToken ==
    pc # "auth" =>
        /\ (NoCredentials \/ NetworkError \/ Non2xx \/ NoTokenField)
              => ~Truthy(api_token)
        /\ ~Truthy(api_token) =>
              /\ pc = "returned"
              /\ output = File(TRUE, EmptyMap)
              /\ setup = [excel |-> "no", pdf |-> "no"]
              /\ questions = <<>>
              /\ i = 0 /\ log = <<>>

\* The login got a 201 reply whose data has no accessToken, and main
\* returned having written the empty object.
C7_Witness ==
    /\ pc = "returned"
    /\ ~NoCredentials
    /\ login.reply.status = 201 /\ login.reply.data_kind = "dict"
    /\ login.reply.accessToken = Absent
    /\ output = File(TRUE, EmptyMap)
    /\ Len(excel) > 0

\* The iterations that ended with a url: the record is flagged, the upload
\* was called and returned a url.
Mined == {k \in DOMAIN log :
             /\ questions[k].has_image = BoolV(TRUE)
             /\ log[k].searched /\ log[k].uploads = 1 /\ Truthy(log[k].url)}
TextOf(k) == questions[k].Question.s
LastMined(t) == CHOOSE k \in Mined : TextOf(k) = t /\ \A j \in Mined : TextOf(j) = t => j <= k

\* C10: when main has run the loop to its end and saved, lookup_map has a
\* key q exactly when some flagged record with the untruncated question text
\* q ended with a url, its value is the url of the last such record, and
\* upload_image_api was called at most once for every record.
C10_LookupMap ==
    pc = "returned" /\ Loaded =>
        /\ DOMAIN log = DOMAIN questions
        /\ DOMAIN lookup_map = {TextOf(k) : k \in Mined}
        /\ \A t \in DOMAIN lookup_map : lookup_map[t] = log[LastMined(t)].url
        /\ \A k \in DOMAIN log : log[k].uploads <= 1

\* Two flagged records with the same text got different urls, a third text
\* differs from it only after QueryLen characters: the map holds the second
\* url.
C10_Witness ==
    /\ pc = "returned" /\ Loaded
    /\ Len(questions) = 2
    /\ TextOf(1) = LongA /\ TextOf(2) = LongA
    /\ Mined = {1, 2}
    /\ log[1].url # log[2].url
    /\ lookup_map[LongA] = log[2].url
    /\ DOMAIN lookup_map = {LongA}

\* The flag values the claim calls flagged.
FlaggedValues ==
    { BoolV(TRUE), IntV(1), StrV(<<"1">>), StrV(<<"T","r","u","e">>),
      StrV(<<"t","r","u","e">>), StrV(<<"T","R","U","E">>) }

\* C6: a record is searched for (and only then possibly uploaded) exactly
\* when its flag is boolean true or reads, in any letter case, "true" or "1":
\* true, "True", "1" and 1 are flagged; false, "no", 0, "0", "yes", 1.0 and
\* a missing flag are not.
C6_Flagged ==
    \A k \in DOMAIN log :
        /\ log[k].searched <=> questions[k].has_image \in FlaggedValues
        /\ log[k].flagged <=> questions[k].has_image \in FlaggedValues
        /\ log[k].uploads > 0 => questions[k].has_image \in FlaggedValues

\* A row flagged "True" was searched for and uploaded, a row without a flag
\* was not.
C6_Witness ==
    /\ Len(log) = 2
    /\ questions[1].has_image = StrV(<<"T","r","u","e">>)
    /\ log[1].searched /\ log[1].uploads = 1
    /\ questions[2].has_image = AbsentV
    /\ ~log[2].searched

====
